---------------------------- MODULE Spec2Model ----------------------------
(***************************************************************************)
(* Note state synchronisation of the investigation board                   *)
(* (src/scripts/investigation-board.js): every peer runs one               *)
(* NotePositionManager holding `positions`, the scene flag "notePositions" *)
(* is the persistent store, socketlib is the broadcast channel and the     *)
(* host's drawing documents are the shared canvas.                         *)
(*                                                                         *)
(* A JavaScript object used as a map is a function whose DOMAIN is the set *)
(* of its keys; `null` / "absent" is the empty sequence and a present      *)
(* value v is <<v>>.                                                       *)
(***************************************************************************)
EXTENDS Integers, Sequences, FiniteSets, TLC

\* ---------------------------------------------------------------- bounds
\* Host events (document mutations, canvasReady, scene changes) on the
\* scene, the creation of a note found at start included.
MaxEvents == 2
\* Store writes that reject in one run.
MaxFailures == 1

Peers == {"u1", "u2"}
Ids == {"n1", "n2"}
Xs == {0, 1}

\* ------------------------------------------------------------- constants
Undef == "undefined"
NoId == ""
Null == <<>>
\* a drawing of the scene that carries no flags of this module
Plain == "d0"
PinRed == "redPin.webp"
\* document.flags[MODULE_ID].pinColor: missing, empty or assigned
DocPins == {Undef, "", PinRed}
\* the world setting "pinColor" read by _updateSprites
PinSettings == {"none", "red"}

Some(v) == <<v>>
Get(o) == o[1]

\* the object `o` with key k set to v / with key k deleted
Put(o, k, v) == [i \in DOMAIN o \cup {k} |-> IF i = k THEN v ELSE o[i]]
Del(o, k) == [i \in DOMAIN o \ {k} |-> o[i]]
Empty == [i \in {} |-> 0]

VARIABLES
    clock,      \* host events so far; also the reading of Date.now()
    socketlib,  \* game.modules.get("socketlib")?.active
    pinSetting, \* game.settings.get(MODULE_ID, "pinColor")
    scene,      \* scene[p]: canvas.scene is set at peer p
    docs,       \* the managed drawings of the scene: id -> [x, pin]
    store,      \* scene flag notePositions: id -> position
    positions,  \* positions[p]: this.positions of peer p
    applied,    \* applied[p]: per id, the change peer p handled last
    tasks,      \* tasks[p]: handlers suspended at an await, and setFlag calls
    updates,    \* document.update calls of _updateSprites not yet applied
    hydrating,  \* hydrating[p]: loadPositions suspended at its await
    placeableFlags, \* the host's Drawing object has a `flags` property
    net,        \* socket messages sent and not yet received
    sent,       \* sent[p]: the executeForOthers calls of peer p, in order
    failed,     \* failed[p]: the changes whose setFlag call rejected
    saved,      \* saved[p]: the changes whose setFlag call resolved
    call,       \* a call of the query interface or of a text helper
    returned    \* what that call returned

\* the state of the synchronisation
sync == <<clock, socketlib, pinSetting, scene, docs, store, positions,
          applied, tasks, updates, hydrating, placeableFlags, net, sent,
          failed, saved>>

vars == <<sync, call, returned>>


\* ------------------------------------------------------- pure helpers

\* updatePosition's position object: x stands for the pose and shape fields
\* copied as they are, pinColor for the flag fields defaulted with || "".
\* The notes of the model carry no type flag, which makes them stickies.
Position(id, document, now) ==
    [id |-> id,
     x |-> document.x,
     type |-> "sticky",
     pinColor |-> IF document.pin = Undef THEN "" ELSE document.pin,
     updated |-> now]

\* the document after document.update(updateData)
Merge(document, updateData) ==
    [x |-> IF "x" \in DOMAIN updateData THEN updateData["x"] ELSE document.x,
     pin |-> IF "pinColor" \in DOMAIN updateData
             THEN updateData["pinColor"] ELSE document.pin]

\* onNoteUpdate: hasPositionChange || hasShapeChange || hasFlagChanges
HasTrackedChange(updateData) ==
    "x" \in DOMAIN updateData \/ "pinColor" \in DOMAIN updateData

\* a broadcast guard that does not look at this.socket
ShouldBroadcastAnyChannel(p, userId) == p = userId

\* the broadcast guard of updatePosition and onNoteDelete
ShouldBroadcast(p, userId) == socketlib /\ p = userId

\* savePositions up to its await: no scene, no write
SavePositions(p) == IF ~scene[p] THEN "none" ELSE "pending"

\* the messages of one executeForOthers call
ForOthers(p, data) == {[to |-> q, data |-> data] : q \in Peers \ {p}}

\* canvas.drawings of peer p
Drawings(p) == IF scene[p] THEN docs ELSE Empty

\* the engine of peer p as one value; out: the broadcasts of the current call
Engine(p) ==
    [positions |-> positions[p], applied |-> applied[p],
     tasks |-> tasks[p], out |-> <<>>]

\* ----------------------------------------------------------- handlers

\* updatePosition up to `await this.savePositions()`
UpdatePosition(p, e, ev, now) ==
    LET position == Position(ev.id, ev.document, now)
        pos == Put(e.positions, ev.id, position)
        t == [kind |-> "update", id |-> ev.id, position |-> Some(position),
              userId |-> ev.userId, via |-> ev.via, snap |-> pos,
              io |-> SavePositions(p)]
    IN  [e EXCEPT !.positions = pos,
                  !.applied = Put(e.applied, ev.id, position),
                  !.tasks = e.tasks \cup {t}]

\* a continuation that broadcasts whoever made the change
AfterAwaitAnyUser(p, e, t) ==
    IF socketlib
    THEN [e EXCEPT !.tasks = e.tasks \ {t},
                   !.out = <<[id |-> t.id, position |-> t.position,
                              userId |-> t.userId, via |-> t.via]>>]
    ELSE [e EXCEPT !.tasks = e.tasks \ {t}]

\* a continuation that assigns its own record again after the await
AfterAwaitReassign(p, e, t) ==
    LET pos == Put(e.positions, t.id, Get(t.position))
    IN  IF ShouldBroadcast(p, t.userId)
        THEN [e EXCEPT !.positions = pos,
                       !.tasks = e.tasks \ {t},
                       !.out = <<[id |-> t.id, position |-> t.position,
                                  userId |-> t.userId, via |-> t.via]>>]
        ELSE [e EXCEPT !.positions = pos, !.tasks = e.tasks \ {t}]

\* updatePosition after the await: emit, then broadcast if this user made
\* the change
AfterAwait(p, e, t) ==
    IF ShouldBroadcast(p, t.userId)
    THEN [e EXCEPT !.tasks = e.tasks \ {t},
                   !.out = <<[id |-> t.id, position |-> t.position,
                              userId |-> t.userId, via |-> t.via]>>]
    ELSE [e EXCEPT !.tasks = e.tasks \ {t}]

\* an updateDrawing hook without the noSocket return
OnNoteUpdateUnguarded(p, e, ev, now) ==
    IF ev.managed /\ HasTrackedChange(ev.updateData)
    THEN UpdatePosition(p, e, ev, now)
    ELSE e

OnNoteUpdate(p, e, ev, now) ==
    IF ev.noSocket THEN e
    ELSE IF ev.managed /\ HasTrackedChange(ev.updateData)
         THEN UpdatePosition(p, e, ev, now)
         ELSE e

OnNoteCreate(p, e, ev, now) ==
    IF ev.managed THEN UpdatePosition(p, e, ev, now) ELSE e

\* a deleteDrawing hook that tells nobody
OnNoteDeleteSilent(p, e, ev) ==
    IF ev.managed /\ ev.id \in DOMAIN e.positions
    THEN LET pos == Del(e.positions, ev.id)
             t == [kind |-> "save", id |-> ev.id, position |-> Null,
                   userId |-> ev.userId, via |-> ev.via, snap |-> pos,
                   io |-> "pending"]
         IN  [e EXCEPT !.positions = pos,
                       !.applied = Del(e.applied, ev.id),
                       !.tasks = IF SavePositions(p) = "pending"
                                 THEN e.tasks \cup {t}
                                 ELSE e.tasks]
    ELSE e

\* savePositions is not awaited here: the broadcast goes out at once
OnNoteDelete(p, e, ev) ==
    IF ev.managed /\ ev.id \in DOMAIN e.positions
    THEN LET pos == Del(e.positions, ev.id)
             t == [kind |-> "save", id |-> ev.id, position |-> Null,
                   userId |-> ev.userId, via |-> ev.via, snap |-> pos,
                   io |-> "pending"]
         IN  [e EXCEPT
                !.positions = pos,
                !.applied = Del(e.applied, ev.id),
                !.tasks = IF SavePositions(p) = "pending"
                          THEN e.tasks \cup {t} ELSE e.tasks,
                !.out = IF ShouldBroadcast(p, ev.userId)
                        THEN <<[id |-> ev.id, position |-> Null,
                                userId |-> ev.userId, via |-> ev.via]>>
                        ELSE <<>>]
    ELSE e

\* a receiver that does not look at data.id
OnExternalPositionUpdateAnyId(pos, data) ==
    IF data.position # Null THEN Put(pos, data.id, Get(data.position)) ELSE pos

\* a receiver that stamps the record with its own time of receipt
OnExternalPositionUpdateStamped(pos, data) ==
    IF data.id # NoId /\ data.position # Null
    THEN Put(pos, data.id, [Get(data.position) EXCEPT !.updated = clock + 1])
    ELSE pos

\* onExternalPositionUpdate: the cache part
OnExternalPositionUpdate(pos, data) ==
    IF data.id # NoId /\ data.position # Null
    THEN Put(pos, data.id, Get(data.position))
    ELSE pos

\* onExternalPositionUpdate: whether drawing.refresh() is called
RefreshesDrawing(p, data) ==
    data.id # NoId /\ data.position # Null /\ data.id \in DOMAIN Drawings(p)

\* _updateSprites, pin handling: the document.update calls it issues
UpdateSprites(p, id, isOwner, via) ==
    IF pinSetting # "none" /\ docs[id].pin \in {Undef, ""} /\ isOwner
    THEN {[p |-> p, id |-> id, pinColor |-> PinRed, via |-> via]}
    ELSE {}

\* an updateData that carries every saved field, differing or not
UpdateDataForAll(position, drawing) ==
    [f \in {"x", "pinColor"} |->
        IF f = "x" THEN position.x ELSE position.pinColor]

\* loadPositions: updateData of one saved position against its drawing
UpdateDataFor(position, drawing) ==
    LET changed == {f \in {"x", "pinColor"} :
                      IF f = "x" THEN drawing.x # position.x
                      ELSE drawing.pin # position.pinColor}
    IN  [f \in changed |-> IF f = "x" THEN position.x ELSE position.pinColor]

\* loadPositions: the entries still to visit, from the first one whose
\* drawing needs a correction write
RECURSIVE SkipClean(_, _, _)
SkipClean(ids, S, D) ==
    IF ids = <<>> THEN <<>>
    ELSE IF Head(ids) \in DOMAIN D
            /\ DOMAIN UpdateDataFor(S[Head(ids)], D[Head(ids)]) # {}
         THEN ids
         ELSE SkipClean(Tail(ids), S, D)

\* loadPositions suspended at `await drawing.document.update(...)`, or done
Suspend(todo, S, D) ==
    IF todo = <<>> THEN Null
    ELSE Some([id |-> Head(todo),
               updateData |-> UpdateDataFor(S[Head(todo)], D[Head(todo)]),
               rest |-> Tail(todo), S |-> S])

\* loadPositions reads drawing.flags[MODULE_ID] of the first entry that has
\* a drawing: a TypeError ends it there if the host's Drawing object has no
\* `flags` (the document has them)
Throws(todo, D) ==
    ~placeableFlags /\ \E i \in DOMAIN todo : todo[i] \in DOMAIN D

\* loadPositions from the entries `todo` on, up to its next await
LoadPositions(todo, S, D) ==
    IF Throws(todo, D) THEN Null ELSE Suspend(SkipClean(todo, S, D), S, D)

\* the orders Object.entries may give the keys of o
Orders(o) ==
    {s \in UNION {[1..n -> DOMAIN o] : n \in {Cardinality(DOMAIN o)}} :
        \A i, j \in DOMAIN s : i # j => s[i] # s[j]}


\* ------------------------------------------------------------ actions

Range(q) == {q[i] : i \in DOMAIN q}

\* the engine of peer p after a handler call, its broadcasts sent
Commit(p, e) ==
    /\ positions' = [positions EXCEPT ![p] = e.positions]
    /\ applied' = [applied EXCEPT ![p] = e.applied]
    /\ tasks' = [tasks EXCEPT ![p] = e.tasks]
    /\ sent' = [sent EXCEPT ![p] = @ \o e.out]
    /\ net' = net \cup UNION {ForOthers(p, [id |-> m.id,
                                            position |-> m.position]) :
                               m \in Range(e.out)}

Event(id, document, updateData, noSocket, userId, via) ==
    [id |-> id, document |-> document, updateData |-> updateData,
     noSocket |-> noSocket, managed |-> id # Plain, userId |-> userId,
     via |-> via]

\* Hook createDrawing at peer p: user userId created drawing id
CreateDrawing(p, id, x, noSocket, userId) ==
    LET document == [x |-> x, pin |-> Undef] IN
    /\ clock < MaxEvents
    /\ id \notin DOMAIN docs
    /\ clock' = clock + 1
    /\ docs' = IF id = Plain THEN docs ELSE Put(docs, id, document)
    /\ Commit(p, OnNoteCreate(p, Engine(p),
                  Event(id, document, Empty, noSocket, userId, "local"),
                  clock'))
    /\ UNCHANGED <<saved, call, returned, placeableFlags, failed, socketlib,
                   pinSetting, scene, store, updates, hydrating>>

\* the updateData of an update: a pose change, a pin change, or a change
\* of fields the manager does not track
Changes ==
    {[f \in {"x"} |-> x] : x \in Xs} \cup
    {[f \in {"pinColor"} |-> PinRed], Empty}

\* Hook updateDrawing at peer p: user userId updated drawing id
UpdateDrawing(p, id, updateData, noSocket, userId) ==
    LET document == IF id = Plain THEN [x |-> 0, pin |-> Undef]
                    ELSE Merge(docs[id], updateData) IN
    /\ clock < MaxEvents
    /\ id \in DOMAIN docs \cup {Plain}
    /\ clock' = clock + 1
    /\ docs' = IF id = Plain THEN docs ELSE Put(docs, id, document)
    /\ Commit(p, OnNoteUpdate(p, Engine(p),
                  Event(id, document, updateData, noSocket, userId, "local"),
                  clock'))
    /\ UNCHANGED <<saved, call, returned, placeableFlags, failed, socketlib,
                   pinSetting, scene, store, updates, hydrating>>

\* Hook deleteDrawing at peer p: user userId deleted drawing id
DeleteDrawing(p, id, noSocket, userId) ==
    LET document == IF id = Plain THEN [x |-> 0, pin |-> Undef]
                    ELSE docs[id] IN
    /\ clock < MaxEvents
    /\ id \in DOMAIN docs \cup {Plain}
    /\ clock' = clock + 1
    /\ docs' = Del(docs, id)
    /\ Commit(p, OnNoteDelete(p, Engine(p),
                  Event(id, document, Empty, noSocket, userId, "local")))
    /\ UNCHANGED <<saved, call, returned, placeableFlags, failed, socketlib,
                   pinSetting, scene, store, updates, hydrating>>

\* a catch that rolls the change of the rejected call back
CatchSaveErrorRollback(pos, t) ==
    IF t.kind = "update" THEN Del(pos, t.id) ELSE pos

\* savePositions' catch: the error is logged, nothing else
CatchSaveError(pos, t) == pos

\* scene.setFlag of task t resolves: the store holds its snapshot, and an
\* awaiting updatePosition continues
PersistOk(p, t) ==
    /\ t \in tasks[p]
    /\ t.io = "pending"
    /\ store' = t.snap
    /\ saved' = [saved EXCEPT
                   ![p] = @ \cup {[id |-> t.id, position |-> t.position]}]
    /\ Commit(p, IF t.kind = "update" THEN AfterAwait(p, Engine(p), t)
                 ELSE [Engine(p) EXCEPT !.tasks = @ \ {t}])
    /\ UNCHANGED <<call, returned, placeableFlags, failed, clock, socketlib,
                   pinSetting, scene, docs, updates, hydrating>>

\* scene.setFlag of task t rejects: savePositions catches the error, and
\* an awaiting updatePosition continues
PersistFail(p, t) ==
    LET e == [Engine(p) EXCEPT !.positions = CatchSaveError(@, t)] IN
    /\ t \in tasks[p]
    /\ t.io = "pending"
    /\ Cardinality(UNION {failed[q] : q \in Peers}) < MaxFailures
    /\ failed' = [failed EXCEPT ![p] =
                     @ \cup {[id |-> t.id, position |-> t.position]}]
    /\ Commit(p, IF t.kind = "update" THEN AfterAwait(p, e, t)
                 ELSE [e EXCEPT !.tasks = @ \ {t}])
    /\ UNCHANGED <<saved, call, returned, placeableFlags, clock, socketlib,
                   pinSetting, scene, docs, store, updates, hydrating>>

\* updatePosition of task t continues after savePositions returned without
\* a write (no scene)
UpdatePositionResume(p, t) ==
    /\ t \in tasks[p]
    /\ t.io = "none"
    /\ Commit(p, AfterAwait(p, Engine(p), t))
    /\ UNCHANGED <<saved, call, returned, placeableFlags, failed, clock,
                   socketlib, pinSetting, scene, docs, store, updates,
                   hydrating>>

\* onExternalPositionUpdate(data) at peer p, and the refresh of the drawing
Handle(p, data, isOwner) ==
    /\ positions' = [positions EXCEPT ![p] =
                       OnExternalPositionUpdate(@, data)]
    /\ applied' = [applied EXCEPT ![p] = OnExternalPositionUpdate(@, data)]
    /\ updates' = IF RefreshesDrawing(p, data)
                  THEN updates \cup
                       UpdateSprites(p, data.id, isOwner, "remote")
                  ELSE updates
    /\ UNCHANGED <<saved, call, returned, placeableFlags, failed, socketlib,
                   pinSetting, scene, docs, store, tasks, hydrating, sent>>

\* the socket delivers message m
Receive(m, isOwner) ==
    /\ m \in net
    /\ net' = net \ {m}
    /\ Handle(m.to, m.data, isOwner)
    /\ UNCHANGED clock

\* the host applies a document.update of _updateSprites and calls the
\* updateDrawing hook at the peer that issued it
ApplyUpdate(r) ==
    /\ r \in updates
    /\ updates' = updates \ {r}
    /\ IF r.id \in DOMAIN docs
       THEN LET updateData == [f \in {"pinColor"} |-> r.pinColor]
                document == Merge(docs[r.id], updateData) IN
            /\ docs' = Put(docs, r.id, document)
            /\ Commit(r.p, OnNoteUpdate(r.p, Engine(r.p),
                        Event(r.id, document, updateData, FALSE, r.p, r.via),
                        clock))
       ELSE UNCHANGED <<docs, positions, applied, tasks, net, sent>>
    /\ UNCHANGED <<saved, call, returned, placeableFlags, failed, clock,
                   socketlib, pinSetting, scene, store, hydrating>>

\* Hook canvasReady at peer p: loadPositions up to its first await
CanvasReady(p) ==
    /\ clock < MaxEvents
    /\ hydrating[p] = Null
    /\ clock' = clock + 1
    /\ scene' = [scene EXCEPT ![p] = TRUE]
    /\ positions' = [positions EXCEPT ![p] = store]
    /\ applied' = [applied EXCEPT ![p] = store]
    /\ \E order \in Orders(store) :
         hydrating' = [hydrating EXCEPT ![p] =
                         LoadPositions(order, store, docs)]
    /\ UNCHANGED <<saved, call, returned, placeableFlags, failed, socketlib,
                   pinSetting, docs, store, tasks, updates, net, sent>>

\* the correction write of loadPositions settles: the host calls the
\* updateDrawing hook with noSocket, and the loop goes on
LoadPositionsResume(p) ==
    /\ hydrating[p] # Null
    /\ LET h == Get(hydrating[p]) IN
       IF h.id \in DOMAIN docs
       THEN LET document == Merge(docs[h.id], h.updateData)
                D == IF scene[p] THEN docs' ELSE Empty IN
            /\ docs' = Put(docs, h.id, document)
            /\ Commit(p, OnNoteUpdate(p, Engine(p),
                        Event(h.id, document, h.updateData, TRUE, p, "load"),
                        clock))
            /\ hydrating' = [hydrating EXCEPT ![p] =
                               LoadPositions(h.rest, h.S, D)]
       ELSE /\ hydrating' = [hydrating EXCEPT ![p] = Null]
            /\ UNCHANGED <<docs, positions, applied, tasks, net, sent>>
    /\ UNCHANGED <<saved, call, returned, placeableFlags, failed, clock,
                   socketlib, pinSetting, scene, store, updates>>

\* the canvas of peer p is torn down: no scene is viewed
SceneUnload(p) ==
    /\ clock < MaxEvents
    /\ scene[p]
    /\ clock' = clock + 1
    /\ scene' = [scene EXCEPT ![p] = FALSE]
    /\ UNCHANGED <<saved, call, returned, placeableFlags, failed, socketlib,
                   pinSetting, docs, store, positions, applied, tasks,
                   updates, hydrating, net, sent>>

\* the scene a session starts in: a fresh one, or one holding a note that
\* createNote made and an earlier session saved (one event of the run)
SavedNote == [x |-> 0, pin |-> Undef]
Worlds ==
    {[docs |-> Empty, store |-> Empty],
     [docs |-> Put(Empty, "n1", SavedNote),
      store |-> Put(Empty, "n1", Position("n1", SavedNote, 0))]}

\* the state after `new NotePositionManager()` at every peer: the
\* constructor's loadPositions() has run up to its first await
Init ==
    /\ call = Null
    /\ returned = Null
    /\ placeableFlags \in BOOLEAN
    /\ socketlib \in BOOLEAN
    /\ pinSetting \in PinSettings
    /\ scene = [p \in Peers |-> TRUE]
    /\ \E w \in Worlds :
         /\ docs = w.docs
         /\ clock = Cardinality(DOMAIN w.docs)
         /\ store = w.store
         /\ positions = [p \in Peers |-> w.store]
         /\ applied = [p \in Peers |-> w.store]
         /\ \E order \in Orders(w.store) :
              hydrating = [p \in Peers |->
                             LoadPositions(order, w.store, w.docs)]
    /\ tasks = [p \in Peers |-> {}]
    /\ updates = {}
    /\ net = {}
    /\ sent = [p \in Peers |-> <<>>]
    /\ failed = [p \in Peers |-> {}]
    /\ saved = [p \in Peers |-> {}]

Next ==
    \/ \E p \in Peers, id \in Ids \cup {Plain}, x \in Xs,
          noSocket \in BOOLEAN, userId \in Peers :
          CreateDrawing(p, id, x, noSocket, userId)
    \/ \E p \in Peers, id \in Ids \cup {Plain}, updateData \in Changes,
          noSocket \in BOOLEAN, userId \in Peers :
          UpdateDrawing(p, id, updateData, noSocket, userId)
    \/ \E p \in Peers, id \in Ids \cup {Plain}, noSocket \in BOOLEAN,
          userId \in Peers :
          DeleteDrawing(p, id, noSocket, userId)
    \/ \E p \in Peers : \E t \in tasks[p] : PersistOk(p, t)
    \/ \E p \in Peers : \E t \in tasks[p] : PersistFail(p, t)
    \/ \E p \in Peers : \E t \in tasks[p] : UpdatePositionResume(p, t)
    \/ \E m \in net, isOwner \in BOOLEAN : Receive(m, isOwner)
    \/ \E r \in updates : ApplyUpdate(r)
    \/ \E p \in Peers : CanvasReady(p)
    \/ \E p \in Peers : LoadPositionsResume(p)
    \/ \E p \in Peers : SceneUnload(p)

Spec == Init /\ [][Next]_vars


\* --------------------------------------------- remote application, twice

\* the positions a message or a cache may hold for note id
RecordsOf(id) ==
    {Position(id, [x |-> x, pin |-> pin], now) :
        x \in Xs, pin \in {Undef, PinRed}, now \in {0, MaxEvents}}

Caches ==
    UNION {{c \in [D -> UNION {RecordsOf(id) : id \in Ids}] :
               \A id \in D : c[id] \in RecordsOf(id)} : D \in SUBSET Ids}

Messages ==
    {[id |-> id, position |-> Null] : id \in Ids \cup {NoId}} \cup
    UNION {{[id |-> id, position |-> Some(r)] : r \in RecordsOf(id)} :
             id \in Ids} \cup
    {[id |-> NoId, position |-> Some(r)] : r \in RecordsOf("n1")}

\* one message and one receiving cache, every other part as at start
InitTwice ==
    /\ call = Null
    /\ returned = Null
    /\ placeableFlags \in BOOLEAN
    /\ clock = 0
    /\ socketlib = TRUE
    /\ pinSetting \in PinSettings
    /\ scene = [p \in Peers |-> TRUE]
    /\ docs \in {Empty, Put(Empty, "n1", SavedNote)}
    /\ store = Empty
    /\ \E c \in Caches :
         /\ positions = [p \in Peers |-> IF p = "u2" THEN c ELSE Empty]
         /\ applied = positions
    /\ \E data \in Messages : net = {[to |-> "u2", data |-> data]}
    /\ tasks = [p \in Peers |-> {}]
    /\ updates = {}
    /\ hydrating = [p \in Peers |-> Null]
    /\ sent = [p \in Peers |-> <<>>]
    /\ failed = [p \in Peers |-> {}]
    /\ saved = [p \in Peers |-> {}]

\* the message is handled a first and a second time
Redeliver(m, isOwner) ==
    /\ m \in net
    /\ clock < 2
    /\ clock' = clock + 1
    /\ net' = net
    /\ Handle(m.to, m.data, isOwner)

NextTwice == \E m \in net, isOwner \in BOOLEAN : Redeliver(m, isOwner)

SpecTwice == InitTwice /\ [][NextTwice]_vars


\* ================================================================ claims

\* peer p sends nothing in this step
Quiet(p) == sent'[p] = sent[p] /\ net' = net

\* after this step peer p holds `position` for id
Holds(p, id, position) ==
    id \in DOMAIN positions'[p] /\ positions'[p][id] = position

\* after this step a setFlag call of peer p carries its whole cache
PersistIssued(p) ==
    \E t \in tasks'[p] : t.io = "pending" /\ t.snap = positions'[p]

\* the change f (a position of an id, or its deletion) is what `cache` says
StillHeld(f, cache) ==
    IF f.position = Null THEN f.id \notin DOMAIN cache
    ELSE f.id \in DOMAIN cache /\ cache[f.id] = Get(f.position)

\* C1: when a peer receives {id, position: null} for an id it holds, the id
\* is gone from its positions when the handler returns.
C1_RemoteDeletionApplied ==
    [][\A m \in net, isOwner \in BOOLEAN :
         (/\ Receive(m, isOwner)
          /\ m.data.position = Null
          /\ m.data.id \in DOMAIN positions[m.to])
         => m.data.id \notin DOMAIN positions'[m.to]]_vars

\* C2: no peer broadcasts because of a remote change it applied: no
\* executeForOthers call stems from the refresh that onExternalPositionUpdate
\* triggers.
C2_LoopFreedom ==
    \A p \in Peers : \A i \in DOMAIN sent[p] : sent[p][i].via # "remote"

\* C3: an unsuppressed delete event that peer p originated, for an id p
\* holds and with the socket available, removes the id from positions and
\* sends exactly one message {id, position: null} to the other peers.
C3_DeletionPropagates ==
    [][\A p \in Peers, id \in Ids :
         (/\ DeleteDrawing(p, id, FALSE, p)
          /\ socketlib
          /\ id \in DOMAIN positions[p])
         => /\ id \notin DOMAIN positions'[p]
            /\ Len(sent'[p]) = Len(sent[p]) + 1
            /\ sent'[p][Len(sent'[p])].id = id
            /\ sent'[p][Len(sent'[p])].position = Null
            /\ net' = net \cup ForOthers(p, [id |-> id, position |-> Null])
       ]_vars

\* C3 witness: a peer has broadcast the deletion of a note it originated
\* and no longer holds it.
C3_Witness ==
    \E p \in Peers : \E i \in DOMAIN sent[p] :
        /\ sent[p][i].position = Null
        /\ sent[p][i].userId = p
        /\ sent[p][i].id \notin DOMAIN positions[p]
        /\ \E m \in net : m.data = [id |-> sent[p][i].id, position |-> Null]

\* C4 as claimed: when loadPositions completes, positions equals the
\* snapshot S it read, and it has sent nothing.
C4_HydrationConvergence ==
    [][\A p \in Peers :
         /\ (CanvasReady(p) /\ hydrating'[p] = Null)
            => (positions'[p] = store /\ Quiet(p))
         /\ (/\ LoadPositionsResume(p)
             /\ hydrating'[p] = Null
             /\ Get(hydrating[p]).id \in DOMAIN docs)
            => (positions'[p] = Get(hydrating[p]).S /\ Quiet(p))]_vars

\* C4 amended: loadPositions sets positions to the snapshot S before its
\* first await; neither it nor the hook of a correction write sends a
\* message or starts a handler; and a resumption leaves positions as they
\* are, so positions equal S at completion if they did before it.
C4_HydrationConvergenceUndisturbed ==
    [][\A p \in Peers :
         /\ CanvasReady(p)
            => (positions'[p] = store /\ Quiet(p) /\ tasks' = tasks)
         /\ LoadPositionsResume(p)
            => /\ positions'[p] = positions[p]
               /\ Quiet(p)
               /\ tasks' = tasks
               /\ (/\ hydrating'[p] = Null
                   /\ positions[p] = Get(hydrating[p]).S)
                  => positions'[p] = Get(hydrating[p]).S]_vars

\* C4 witness: every loadPositions has completed, one of them after a
\* correction write (only loadPositions writes an empty pinColor), and a
\* peer's positions equal the stored snapshot.
C4_Witness ==
    /\ \A p \in Peers : hydrating[p] = Null
    /\ \E p \in Peers, id \in DOMAIN store :
         /\ positions[p] = store
         /\ id \in DOMAIN docs
         /\ docs[id].pin = ""
         /\ store[id].pinColor = ""

\* C5 as claimed: an event that another user originated changes nothing at
\* peer p: positions, setFlag calls and broadcasts stay as they are.
C5_OriginGuard ==
    [][\A p \in Peers, id \in Ids, noSocket \in BOOLEAN :
         \A userId \in Peers \ {p} :
           (\/ \E x \in Xs : CreateDrawing(p, id, x, noSocket, userId)
            \/ \E updateData \in Changes :
                 UpdateDrawing(p, id, updateData, noSocket, userId)
            \/ DeleteDrawing(p, id, noSocket, userId))
           => /\ positions'[p] = positions[p]
              /\ tasks'[p] = tasks[p]
              /\ Quiet(p)]_vars

\* C5 amended: an event that another user originated is never broadcast by
\* peer p, neither by the handler nor by its continuation after the
\* await; positions are still updated and, with a scene, still persisted.
C5_ForeignEventsNotBroadcast ==
    [][\A p \in Peers, id \in Ids :
         \A userId \in Peers \ {p} :
           /\ \A x \in Xs, noSocket \in BOOLEAN :
                CreateDrawing(p, id, x, noSocket, userId)
                => /\ Quiet(p)
                   /\ Holds(p, id, Position(id, [x |-> x, pin |-> Undef],
                                            clock'))
                   /\ scene[p] => PersistIssued(p)
           /\ \A updateData \in Changes \ {Empty} :
                UpdateDrawing(p, id, updateData, FALSE, userId)
                => /\ Quiet(p)
                   /\ Holds(p, id, Position(id, docs'[id], clock'))
                   /\ scene[p] => PersistIssued(p)
           /\ \A noSocket \in BOOLEAN :
                (DeleteDrawing(p, id, noSocket, userId)
                 /\ id \in DOMAIN positions[p])
                => /\ Quiet(p)
                   /\ id \notin DOMAIN positions'[p]
                   /\ scene[p] => PersistIssued(p)
           /\ \A t \in tasks[p] :
                (/\ t.userId = userId
                 /\ \/ PersistOk(p, t)
                    \/ PersistFail(p, t)
                    \/ UpdatePositionResume(p, t))
                => Quiet(p)]_vars

\* C5 witness: with the socket available, a peer holds a position made in
\* this run, every handler has finished and nothing was ever broadcast:
\* the event was another user's.
C5_Witness ==
    /\ socketlib
    /\ \A q \in Peers : sent[q] = <<>> /\ tasks[q] = {}
    /\ \E p \in Peers, id \in Ids :
         /\ id \in DOMAIN positions[p]
         /\ positions[p][id].updated > 0
         /\ id \in DOMAIN store
         /\ store[id] = positions[p][id]

\* C6: changes to different ids are both kept: when the setFlag call of an
\* update completes, an id just changed elsewhere whose record the store
\* holds is still in the store.
C6_NoLostUpdates ==
    [][\A q \in Peers : \A t \in tasks[q] :
         (PersistOk(q, t) /\ t.kind = "update")
         => \A p \in Peers \ {q} :
              \A id \in (DOMAIN store \cap DOMAIN docs) \ {t.id} :
                (id \in DOMAIN positions[p] /\ positions[p][id] = store[id])
                => id \in DOMAIN store']_vars

\* C7: when a second change to an id is handled while the setFlag call of
\* the first is pending, positions take the second one's record, and no
\* continuation after the await (whichever call completes first, resolved
\* or rejected) assigns positions: they stay what the handlers assigned.
C7_LastChangeKept ==
    [][\A p \in Peers :
         /\ \A t \in tasks[p] :
              (\/ PersistOk(p, t)
               \/ PersistFail(p, t)
               \/ UpdatePositionResume(p, t))
              => /\ positions'[p] = positions[p]
                 /\ positions'[p] = applied'[p]
         /\ \A id \in Ids, userId \in Peers :
              \A updateData \in Changes \ {Empty} :
                (/\ UpdateDrawing(p, id, updateData, FALSE, userId)
                 /\ \E t \in tasks[p] : t.kind = "update" /\ t.id = id)
                => Holds(p, id, Position(id, docs'[id], clock'))]_vars

\* C7 witness: two updatePosition calls of one peer for one id overlapped,
\* the second one's setFlag completed first (its broadcast is the earlier
\* one), both have finished, and positions hold the second one's record.
C7_Witness ==
    \E p \in Peers : \E i, j \in DOMAIN sent[p] :
        /\ i < j
        /\ sent[p][i].id = sent[p][j].id
        /\ sent[p][i].position # Null
        /\ sent[p][j].position # Null
        /\ Get(sent[p][i].position).updated > Get(sent[p][j].position).updated
        /\ tasks[p] = {}
        /\ sent[p][i].id \in DOMAIN positions[p]
        /\ positions[p][sent[p][i].id] = Get(sent[p][i].position)

\* C8: applying the same message a second time leaves positions as the
\* first application left them.
C8_RemoteIdempotent ==
    [][clock = 1 => positions' = positions]_vars

\* C8 witness: a message with an id and a position was applied twice and
\* the receiver holds exactly the message's position.
C8_Witness ==
    /\ clock = 2
    /\ \E m \in net :
         /\ m.data.id # NoId
         /\ m.data.position # Null
         /\ m.data.id \in DOMAIN positions[m.to]
         /\ positions[m.to][m.data.id] = Get(m.data.position)

\* C9: a rejected setFlag call leaves positions as they are and the handler
\* goes on to its end (its continuation runs, the broadcast included); every
\* setFlag call issued later carries the change of the rejected one as long
\* as positions hold it, and a call that completes stores what it carries.
C9_FailedPersistKept ==
    [][\A p \in Peers :
         /\ \A t \in tasks[p] :
              PersistFail(p, t)
              => /\ positions'[p] = positions[p]
                 /\ store' = store
                 /\ t \notin tasks'[p]
                 /\ (t.kind = "update" /\ ShouldBroadcast(p, t.userId))
                    => /\ Len(sent'[p]) = Len(sent[p]) + 1
                       /\ sent'[p][Len(sent'[p])].id = t.id
                       /\ sent'[p][Len(sent'[p])].position = t.position
         /\ \A t \in tasks'[p] \ tasks[p] :
              t.io = "pending"
              => \A f \in failed[p] :
                   StillHeld(f, positions'[p]) => StillHeld(f, t.snap)
         /\ \A t \in tasks[p] :
              PersistOk(p, t)
              => \A f \in failed[p] :
                   StillHeld(f, t.snap) => StillHeld(f, store')]_vars

\* C9 witness: the setFlag call of a change was rejected, and the store
\* now holds that change, which positions still hold.
C9_Witness ==
    \E p \in Peers : \E f \in failed[p] :
        /\ f.position # Null
        /\ StillHeld(f, positions[p])
        /\ StillHeld(f, store)

\* C10: without socketlib nothing is ever sent, and every create, update
\* and delete a peer originates still updates its positions and, with a
\* scene, issues a setFlag call carrying them, which stores them when it
\* completes.
C10_SinglePeerMode ==
    [][~socketlib =>
         /\ sent' = sent
         /\ net' = net
         /\ \A p \in Peers, id \in Ids :
              /\ \A x \in Xs, noSocket \in BOOLEAN :
                   CreateDrawing(p, id, x, noSocket, p)
                   => /\ Holds(p, id, Position(id, [x |-> x, pin |-> Undef],
                                               clock'))
                      /\ scene[p] => PersistIssued(p)
              /\ \A updateData \in Changes \ {Empty} :
                   UpdateDrawing(p, id, updateData, FALSE, p)
                   => /\ Holds(p, id, Position(id, docs'[id], clock'))
                      /\ scene[p] => PersistIssued(p)
              /\ \A noSocket \in BOOLEAN :
                   (DeleteDrawing(p, id, noSocket, p)
                    /\ id \in DOMAIN positions[p])
                   => /\ id \notin DOMAIN positions'[p]
                      /\ scene[p] => PersistIssued(p)
              /\ \A t \in tasks[p] : PersistOk(p, t) => store' = t.snap
      ]_vars

\* C10 witness: without socketlib a change made in this run is in the
\* peer's positions and in the store, the handler has finished, and nothing
\* was sent.
C10_Witness ==
    /\ ~socketlib
    /\ \A q \in Peers : sent[q] = <<>>
    /\ net = {}
    /\ \E p \in Peers, id \in Ids :
         /\ tasks[p] = {}
         /\ id \in DOMAIN positions[p]
         /\ positions[p][id].updated > 0
         /\ id \in DOMAIN store
         /\ store[id] = positions[p][id]

\* C11: a create, update or delete event that carries noSocket changes
\* nothing at the peer handling it: positions stay, no setFlag call is
\* issued and nothing is sent.
C11_SuppressedIgnored ==
    [][\A p \in Peers, id \in Ids, userId \in Peers :
         (\/ \E x \in Xs : CreateDrawing(p, id, x, TRUE, userId)
          \/ \E updateData \in Changes :
               UpdateDrawing(p, id, updateData, TRUE, userId)
          \/ DeleteDrawing(p, id, TRUE, userId))
         => /\ positions'[p] = positions[p]
            /\ tasks'[p] = tasks[p]
            /\ Quiet(p)]_vars

\* C12: a peer holds a position for an id if and only if the note is on
\* the canvas; stated for the states a hydration leaves, where the peer has
\* just taken its positions from the scene flag.
C12_RecordsMatchCanvas ==
    [][\A p \in Peers :
         CanvasReady(p)
         => \A id \in Ids :
              (id \in DOMAIN positions'[p]) <=> (id \in DOMAIN docs')]_vars

\* ======================================================= query interface

\* the synchronisation at rest, for the runs that only call a function
AtRest ==
    /\ clock = 0
    /\ socketlib = FALSE
    /\ pinSetting = "none"
    /\ placeableFlags = TRUE
    /\ scene = [p \in Peers |-> TRUE]
    /\ docs = Empty
    /\ store = Empty
    /\ positions = [p \in Peers |-> Empty]
    /\ applied = [p \in Peers |-> Empty]
    /\ tasks = [p \in Peers |-> {}]
    /\ updates = {}
    /\ hydrating = [p \in Peers |-> Null]
    /\ net = {}
    /\ sent = [p \in Peers |-> <<>>]
    /\ failed = [p \in Peers |-> {}]
    /\ saved = [p \in Peers |-> {}]

\* ------------------------------------------------------ findNearestNote
\* Largest coordinate of a record and of a query point.
MaxCoord == 2

Coords == 0..MaxCoord
\* the maxDistance arguments tried, the default included
Distances == {-1, 0, 1, 2, 3, 100}

\* dx*dx + dy*dy: Math.sqrt is increasing and exact enough on these
\* integers, so distances are compared by their squares
Distance2(pos, x, y) == (pos.x - x) * (pos.x - x) + (pos.y - y) * (pos.y - y)

\* the first minDistance is maxDistance itself; no distance is below a
\* maxDistance that is not positive
Limit2(maxDistance) == IF maxDistance > 0 THEN maxDistance * maxDistance ELSE 0

\* a comparison that lets a record at the limit through
CloserOrEqual(distance2, minDistance2) == distance2 <= minDistance2

\* distance < minDistance
Closer(distance2, minDistance2) == distance2 < minDistance2

\* the loop over Object.values(this.positions), in insertion order
RECURSIVE NearestFrom(_, _, _, _, _)
NearestFrom(values, x, y, minDistance2, nearest) ==
    IF values = <<>> THEN nearest
    ELSE LET pos == Head(values)
             distance2 == Distance2(pos, x, y)
         IN  IF Closer(distance2, minDistance2)
             THEN NearestFrom(Tail(values), x, y, distance2, Some(pos))
             ELSE NearestFrom(Tail(values), x, y, minDistance2, nearest)

FindNearestNote(values, x, y, maxDistance) ==
    NearestFrom(values, x, y, Limit2(maxDistance), Null)

\* the values of the positions objects over Ids, in every insertion order
ValueLists ==
    UNION {{v \in [1..n -> [id : Ids, x : Coords, y : Coords]] :
              \A i, j \in 1..n : i # j => v[i].id # v[j].id} :
           n \in 0..Cardinality(Ids)}

InitNearest ==
    /\ AtRest
    /\ \E values \in ValueLists, x \in Coords, y \in Coords :
         \E maxDistance \in Distances :
           call = Some([op |-> "findNearestNote", values |-> values,
                        x |-> x, y |-> y, maxDistance |-> maxDistance])
    /\ returned = Null

ReturnNearest ==
    /\ returned = Null
    /\ returned' = Some(FindNearestNote(Get(call).values, Get(call).x,
                                        Get(call).y, Get(call).maxDistance))
    /\ UNCHANGED <<sync, call>>

NextNearest == ReturnNearest

SpecNearest == InitNearest /\ [][NextNearest]_vars

\* the order of ids as strings: "n1" < "n2"
IdBelow(a, b) == a = "n1" /\ b = "n2"

\* the records of the call that are strictly within maxDistance of (x, y)
Within(c) ==
    {i \in DOMAIN c.values :
        c.maxDistance > 0
        /\ Distance2(c.values[i], c.x, c.y) < c.maxDistance * c.maxDistance}

\* C13: findNearestNote returns none exactly when no record is strictly
\* within maxDistance of (x, y), and otherwise a record of positions that
\* is strictly within maxDistance and no farther from (x, y) than any
\* other record.
C13_NearestCorrect ==
    returned # Null
    => LET c == Get(call)
           nearest == Get(returned)
       IN  /\ (nearest = Null) <=> (Within(c) = {})
           /\ nearest # Null
              => /\ \E i \in Within(c) : c.values[i] = Get(nearest)
                 /\ \A i \in DOMAIN c.values :
                      Distance2(Get(nearest), c.x, c.y)
                        <= Distance2(c.values[i], c.x, c.y)

\* C13 witness: the call returned the second record although the first is
\* within maxDistance too, because the second is nearer.
C13_Witness ==
    /\ returned # Null
    /\ Get(returned) # Null
    /\ LET c == Get(call)
       IN  /\ Len(c.values) = 2
           /\ 1 \in Within(c)
           /\ Get(Get(returned)) = c.values[2]
           /\ Distance2(c.values[2], c.x, c.y) > 0

\* C14: when several records are at the same minimal distance, the one
\* returned has the lowest id, whatever the insertion order.
C14_NearestTieLowestId ==
    (returned # Null /\ Get(returned) # Null)
    => LET c == Get(call)
           nearest == Get(Get(returned))
       IN  \A i \in DOMAIN c.values :
             Distance2(c.values[i], c.x, c.y) = Distance2(nearest, c.x, c.y)
             => ~ IdBelow(c.values[i].id, nearest.id)

\* -------------------------------------------------------- _truncateText
\* Longest text truncated.
MaxText == 4

BASE_FONT_SIZE == 15
\* charLimit when limits[noteType] is missing, zero or NaN
FallbackLimit == 100

Chars == {" ", "a"}
Ellipsis == <<".", ".", ".">>
Texts == UNION {[1..n -> Chars] : n \in 0..MaxText}
Fonts == {"Arial"}
NoteTypes == {"sticky", "photo", "index"}
\* the types a note's flags may name, an unknown and a missing one included
TypeArgs == NoteTypes \cup {"handout", Undef}
\* currentFontSize = (width / 200) * baseFontSize
FontSizes == {10, 15, 30, 45}

\* the limits getBaseCharacterLimits and getDynamicCharacterLimits fall
\* back to
DefaultLimits == [sticky |-> 60, photo |-> 15, index |-> 200]
\* the world setting "baseCharacterLimits": unset, or an object whose entry
\* under a key holds the limits of the three types
LimitSettings ==
    {Null,
     Some(Empty),
     Some([k \in Fonts |-> [sticky |-> 2, photo |-> 1, index |-> 3]])}

GetBaseCharacterLimits(setting) ==
    IF setting = Null THEN DefaultLimits ELSE Get(setting)

\* Math.round(limit * (BASE_FONT_SIZE / currentFontSize)): halves go up
RoundScaled(limit, currentFontSize) ==
    (2 * limit * BASE_FONT_SIZE + currentFontSize) \div (2 * currentFontSize)

\* the first parameter is the key looked up in the base limits
GetDynamicCharacterLimits(setting, noteType, currentFontSize) ==
    LET baseLimits == GetBaseCharacterLimits(setting)
        limits == IF noteType \in DOMAIN baseLimits
                  THEN baseLimits[noteType]
                  ELSE DefaultLimits
    IN  [t \in NoteTypes |-> RoundScaled(limits[t], currentFontSize)]

RECURSIVE TrimStart(_)
TrimStart(text) ==
    IF text # <<>> /\ Head(text) = " " THEN TrimStart(Tail(text)) ELSE text

RECURSIVE TrimEnd(_)
TrimEnd(text) ==
    IF text # <<>> /\ text[Len(text)] = " "
    THEN TrimEnd(SubSeq(text, 1, Len(text) - 1))
    ELSE text

\* String.prototype.trim
Trim(text) == TrimEnd(TrimStart(text))

\* text.slice(0, n)
Slice(text, n) == SubSeq(text, 1, IF n < Len(text) THEN n ELSE Len(text))

\* _truncateText passes `font` where getDynamicCharacterLimits expects the
\* note type
TruncateText(setting, text, font, noteType, currentFontSize) ==
    LET limits == GetDynamicCharacterLimits(setting, font, currentFontSize)
        charLimit == IF noteType \in DOMAIN limits /\ limits[noteType] # 0
                     THEN limits[noteType]
                     ELSE FallbackLimit
    IN  IF Len(text) <= charLimit THEN text
        ELSE Trim(Slice(text, charLimit)) \o Ellipsis

InitTruncate ==
    /\ AtRest
    /\ \E setting \in LimitSettings, text \in Texts, font \in Fonts :
         \E noteType \in TypeArgs, currentFontSize \in FontSizes :
           call = Some([op |-> "_truncateText", setting |-> setting,
                        text |-> text, font |-> font, noteType |-> noteType,
                        currentFontSize |-> currentFontSize])
    /\ returned = Null

ReturnTruncated ==
    /\ returned = Null
    /\ returned' = Some(TruncateText(Get(call).setting, Get(call).text,
                                     Get(call).font, Get(call).noteType,
                                     Get(call).currentFontSize))
    /\ UNCHANGED <<sync, call>>

NextTruncate == ReturnTruncated

SpecTruncate == InitTruncate /\ [][NextTruncate]_vars

\* the limit of the law: the configured limit of the type where the base
\* limits have one, the built-in one otherwise, scaled and rounded
LawLimit(c) ==
    LET baseLimits == GetBaseCharacterLimits(c.setting)
        limits == IF c.font \in DOMAIN baseLimits THEN baseLimits[c.font]
                  ELSE DefaultLimits
    IN  RoundScaled(limits[c.noteType], c.currentFontSize)

\* C15: for a text and a known note type, _truncateText returns the text
\* unchanged when it is no longer than limit = round(base limit of the type
\* * BASE_FONT_SIZE / currentFontSize), and otherwise its first `limit`
\* characters with only trailing whitespace trimmed, then the ellipsis.
C15_TruncationLaw ==
    (returned # Null /\ Get(call).noteType \in NoteTypes)
    => LET c == Get(call)
           limit == LawLimit(c)
       IN  Get(returned) = IF Len(c.text) <= limit THEN c.text
                           ELSE TrimEnd(Slice(c.text, limit)) \o Ellipsis

\* ------------------------------------------- getNotesByType, hydration
\* what loadPositions reads from the scene flag and assigns to positions
SavedPositions == store

\* Object.values(positions).filter(pos => pos.type === type)
GetNotesByType(pos, type) ==
    {pos[id] : id \in {i \in DOMAIN pos : pos[i].type = type}}

\* C16: once the setFlag call of a create or update of peer A has resolved,
\* and as long as the note is on the canvas as A recorded it, a peer that
\* runs loadPositions gets A's record of the note, in its positions and in
\* getNotesByType of the note's type.
C16_VisibleThroughStore ==
    \A A \in Peers : \A f \in saved[A] :
        (/\ f.position # Null
         /\ StillHeld(f, positions[A])
         /\ f.id \in DOMAIN docs
         /\ Position(f.id, docs[f.id], Get(f.position).updated)
              = Get(f.position))
        => LET loaded == SavedPositions
               record == Get(f.position)
           IN  /\ f.id \in DOMAIN loaded
               /\ loaded[f.id] = record
               /\ record \in GetNotesByType(loaded, record.type)

\* ---------------------------------------------------- loadPositions twice
\* the peer whose canvas becomes ready twice
Hydrator == "u1"

\* the drawings a scene may hold before its notes are corrected
Canvases ==
    UNION {[D -> [x : Xs, pin : {Undef, PinRed}]] : D \in SUBSET Ids}

InitHydrateTwice ==
    /\ clock = 0
    /\ call = Null
    /\ returned = Null
    /\ socketlib \in BOOLEAN
    /\ pinSetting = "none"
    /\ placeableFlags \in BOOLEAN
    /\ scene = [p \in Peers |-> TRUE]
    /\ docs \in Canvases
    /\ store \in Caches
    /\ \E prior \in {Empty, Put(Empty, "n2", Position("n2", SavedNote, 0))} :
         /\ positions = [p \in Peers |-> prior]
         /\ applied = [p \in Peers |-> prior]
    /\ tasks = [p \in Peers |-> {}]
    /\ updates = {}
    /\ hydrating = [p \in Peers |-> Null]
    /\ net = {}
    /\ sent = [p \in Peers |-> <<>>]
    /\ failed = [p \in Peers |-> {}]
    /\ saved = [p \in Peers |-> {}]

NextHydrateTwice ==
    \/ CanvasReady(Hydrator)
    \/ LoadPositionsResume(Hydrator)

SpecHydrateTwice == InitHydrateTwice /\ [][NextHydrateTwice]_vars

\* C17: with the scene flag unchanged, a second loadPositions leaves
\* positions as the first one left them, finds nothing to correct on the
\* canvas and causes no setFlag call and no broadcast.
C17_HydrateIdempotent ==
    [][(clock = 1 /\ CanvasReady(Hydrator))
       => /\ positions' = positions
          /\ hydrating'[Hydrator] = Null
          /\ docs' = docs
          /\ store' = store
          /\ tasks' = tasks
          /\ Quiet(Hydrator)]_vars

\* C17 witness: loadPositions ran twice, the first run having corrected a
\* drawing (only a correction write leaves an empty pinColor), and the
\* peer holds the stored positions.
C17_Witness ==
    /\ clock = 2
    /\ hydrating[Hydrator] = Null
    /\ positions[Hydrator] = store
    /\ \E id \in DOMAIN store \cap DOMAIN docs :
         docs[id].pin = "" /\ docs[id].x = store[id].x

\* ------------------------------------------------------- getAllPositions
\* `return this.positions`: the caller gets the object itself, here a
\* reference to the positions of peer p
GetAllPositions(p) == [ref |-> p]

\* what a value handed to a consumer reads as, given the peers' positions
Deref(value, pos) ==
    IF "ref" \in DOMAIN value THEN pos[value.ref] ELSE value.copy

InitSnapshot ==
    /\ clock = 0
    /\ call = Null
    /\ returned = Null
    /\ socketlib = TRUE
    /\ pinSetting = "none"
    /\ placeableFlags = TRUE
    /\ scene = [p \in Peers |-> TRUE]
    /\ docs = Empty
    /\ store = Empty
    /\ \E c \in {Empty, Put(Empty, "n1", Position("n1", SavedNote, 0))} :
         /\ positions = [p \in Peers |-> c]
         /\ applied = [p \in Peers |-> c]
    /\ \E p \in Peers, id \in Ids, x \in Xs :
         net = {[to |-> p,
                 data |-> [id |-> id,
                           position |->
                             Some(Position(id, [x |-> x, pin |-> Undef],
                                           0))]]}
    /\ tasks = [p \in Peers |-> {}]
    /\ updates = {}
    /\ hydrating = [p \in Peers |-> Null]
    /\ sent = [p \in Peers |-> <<>>]
    /\ failed = [p \in Peers |-> {}]
    /\ saved = [p \in Peers |-> {}]

\* an external consumer (the positions dialog, a macro) asks for the
\* positions of peer p
CallGetAllPositions(p) ==
    /\ returned = Null
    /\ call' = Some([op |-> "getAllPositions", p |-> p])
    /\ returned' = Some(GetAllPositions(p))
    /\ UNCHANGED sync

\* the consumer deletes an entry of the value it was handed
ConsumerDeletes(id) ==
    /\ returned # Null
    /\ id \in DOMAIN Deref(Get(returned), positions)
    /\ IF "ref" \in DOMAIN Get(returned)
       THEN /\ positions' = [positions EXCEPT ![Get(returned).ref] = Del(@, id)]
            /\ returned' = returned
       ELSE /\ positions' = positions
            /\ returned' = Some([copy |-> Del(Get(returned).copy, id)])
    /\ UNCHANGED <<call, clock, socketlib, pinSetting, scene, docs, store,
                   applied, tasks, updates, hydrating, placeableFlags, net,
                   sent, failed, saved>>

NextSnapshot ==
    \/ \E p \in Peers : CallGetAllPositions(p)
    \/ \E id \in Ids : ConsumerDeletes(id)
    \/ \E m \in net, isOwner \in BOOLEAN : Receive(m, isOwner)
    \/ \E p \in Peers, id \in Ids, x \in Xs :
         CreateDrawing(p, id, x, FALSE, p)

SpecSnapshot == InitSnapshot /\ [][NextSnapshot]_vars

\* C18: the value getAllPositions returned reads the same after a later
\* remote or local change of positions, and a consumer changing that value
\* leaves positions as they are.
C18_SnapshotIsCopy ==
    [][returned # Null
       => /\ (\/ \E m \in net, isOwner \in BOOLEAN : Receive(m, isOwner)
              \/ \E p \in Peers, id \in Ids, x \in Xs :
                   CreateDrawing(p, id, x, FALSE, p))
             => Deref(Get(returned), positions')
                  = Deref(Get(returned), positions)
          /\ (\E id \in Ids : ConsumerDeletes(id))
             => positions' = positions]_vars

\* C19: while a peer has no active scene, its positions are empty.
C19_TeardownClears ==
    \A p \in Peers : ~scene[p] => positions[p] = Empty

\* C20: a socket message without an id is dropped: the receiver's
\* positions stay as they are, no drawing is refreshed (so no document
\* update follows), no setFlag call is issued and nothing is sent.
C20_MalformedDropped ==
    [][\A m \in net, isOwner \in BOOLEAN :
         (Redeliver(m, isOwner) /\ m.data.id = NoId)
         => /\ positions' = positions
            /\ ~RefreshesDrawing(m.to, m.data)
            /\ updates' = updates
            /\ tasks' = tasks
            /\ store' = store
            /\ sent' = sent
            /\ net' = net]_vars

\* C20 witness: a message that carries a position but no id was handled,
\* and the receiver has no entry under the missing id.
C20_Witness ==
    /\ clock >= 1
    /\ \E m \in net :
         /\ m.data.id = NoId
         /\ m.data.position # Null
         /\ NoId \notin DOMAIN positions[m.to]

\* ==================================================== ordering of effects

\* the setFlag call that peer p issued for the change m is pending after
\* this step
PersistPending(p, m) ==
    \E t \in tasks'[p] :
        /\ t.io = "pending"
        /\ t.id = m.id
        /\ t.position = m.position
        /\ t.userId = m.userId
        /\ t.via = m.via

\* C21: a peer sends the message of a create, update or delete it
\* originated only once the setFlag call issued for that change has
\* completed, resolved or rejected: when a message is sent, no setFlag call
\* of its change is pending.
C21_PersistThenBroadcast ==
    [][\A p \in Peers :
         Len(sent'[p]) > Len(sent[p])
         => ~PersistPending(p, sent'[p][Len(sent'[p])])]_vars

\* the handler of this step took the change of note id up at peer p: the
\* positions hold the record of the proposed document and an updatePosition
\* call was started for it
Acted(p, id) ==
    /\ Holds(p, id, Position(id, docs'[id], clock'))
    /\ \E t \in tasks'[p] \ tasks[p] : t.kind = "update" /\ t.id = id

\* the handler of this step did nothing at peer p
NoEffect(p) ==
    /\ positions'[p] = positions[p]
    /\ tasks'[p] = tasks[p]
    /\ Quiet(p)

\* C22: an unsuppressed update event on a managed note is taken up exactly
\* when a tracked field of the proposed document differs from its prior
\* value; an update that leaves every tracked field at its prior value
\* changes no positions, issues no setFlag call and sends nothing.
C22_RelevanceByDifference ==
    [][\A p \in Peers, id \in Ids, userId \in Peers :
         \A updateData \in Changes :
           UpdateDrawing(p, id, updateData, FALSE, userId)
           => IF docs'[id] # docs[id] THEN Acted(p, id) ELSE NoEffect(p)]_vars

\* C23: applying a remote message never writes the scene flag: the handler
\* leaves the store as it is, and so does everything the drawing.refresh()
\* it calls sets off (the setFlag calls of handlers reached through that
\* refresh included).
C23_RemoteNeverWritesStore ==
    [][/\ \A m \in net, isOwner \in BOOLEAN :
            Receive(m, isOwner) => store' = store
       /\ \A p \in Peers : \A t \in tasks[p] :
            (PersistOk(p, t) /\ t.via = "remote") => store' = store]_vars

\* ------------------------------------------- one peer, local changes only

\* the peer whose user makes every change of the run
Solo == "u1"

\* the hooks of Solo's own creates, updates and deletes, the completions of
\* its setFlag calls and the correction writes of its constructor's
\* loadPositions; the other peer stays idle and no message is delivered
NextSolo ==
    \/ \E id \in Ids \cup {Plain}, x \in Xs, noSocket \in BOOLEAN :
          CreateDrawing(Solo, id, x, noSocket, Solo)
    \/ \E id \in Ids \cup {Plain}, updateData \in Changes,
          noSocket \in BOOLEAN :
          UpdateDrawing(Solo, id, updateData, noSocket, Solo)
    \/ \E id \in Ids \cup {Plain}, noSocket \in BOOLEAN :
          DeleteDrawing(Solo, id, noSocket, Solo)
    \/ \E t \in tasks[Solo] : PersistOk(Solo, t)
    \/ \E t \in tasks[Solo] : PersistFail(Solo, t)
    \/ LoadPositionsResume(Solo)

SpecSolo == Init /\ [][NextSolo]_vars

\* C24: with one peer making only local changes, whenever none of its
\* setFlag calls is pending and none has rejected, the scene flag equals
\* its positions, in whichever order overlapping setFlag calls completed.
C24_StoreMirrorsMemory ==
    (tasks[Solo] = {} /\ failed[Solo] = {}) => store = positions[Solo]

\* the places of the messages for note id among those peer p sent
SentFor(p, id) == {i \in DOMAIN sent[p] : sent[p][i].id = id}

\* the last message peer p sent for note id
LastSentFor(p, id) ==
    sent[p][CHOOSE i \in SentFor(p, id) : \A j \in SentFor(p, id) : j <= i]

\* C25: for a peer whose changes are all its own user's, once no
\* updatePosition call is suspended at its await, the last message the peer
\* sent for an id carries what its positions hold for that id, or null when
\* they hold nothing: an update pending across a delete does not send its
\* record after the delete's null, and overlapping updates are not sent in
\* the reverse of the order they were applied in.
C25_BroadcastsTrackFinalState ==
    (\A t \in tasks[Solo] : t.kind # "update")
    => \A id \in Ids :
         SentFor(Solo, id) # {}
         => StillHeld(LastSentFor(Solo, id), positions[Solo])

\* C26: loadPositions does not discard a local change in flight: a create
\* or update that a peer's positions hold while its setFlag call is pending
\* is still held once loadPositions has run, and the resumption of
\* loadPositions after a correction write leaves the positions, with the
\* changes handled during the write, as they are.
C26_HydrateKeepsInFlight ==
    [][\A p \in Peers :
         /\ CanvasReady(p)
            => \A t \in tasks[p] :
                 (/\ t.kind = "update"
                  /\ t.io = "pending"
                  /\ StillHeld(t, positions[p]))
                 => StillHeld(t, positions'[p])
         /\ LoadPositionsResume(p) => positions'[p] = positions[p]]_vars

=============================================================================
